---- MODULE Spec2Model ----
(***************************************************************************)
(* Radiation map server (src/radiation-map/main.py): the SQLite tables,    *)
(* the /api/fetch-device-data endpoint with its per-device background      *)
(* fetch tasks, the alert check, the admin endpoints, init_db and the      *)
(* daily cleanup, as one state machine.                                    *)
(*                                                                         *)
(* Tables are sets (or, for measurements, a bag) of rows.  Columns that no *)
(* handler reads back (device_id, device_class, dev_dashboard, latitude,   *)
(* longitude of a measurement, service_*, recorded_at, last_fetched,       *)
(* last_attempted, deleted_at, alert_sms) are left out of the rows.        *)
(* Time is counted in minutes since 2025-01-01T00:00:00 UTC.               *)
(***************************************************************************)
EXTENDS Integers, Sequences, FiniteSets, Bags, TLC

(***************************************************************************)
(* Program constants                                                       *)
(***************************************************************************)
DEVICE_URNS == <<"geigiecast-zen:65049", "geigiecast-zen:65004", "geigiecast:63209">>

MAX_DATA_DAYS == 30

\* A URN that is not configured in DEVICE_URNS (add_device accepts any URN).
OTHER_URN == "safecast:12345"

Range(s) == {s[i] : i \in DOMAIN s}

Configured == Range(DEVICE_URNS)

Urns == Configured \cup {OTHER_URN}

Day == 24 * 60

(***************************************************************************)
(* Values.  Python None and SQL NULL are NULL in numeric and timestamp     *)
(* columns and NoText in text columns; NaN is float('nan'); BadStr is a    *)
(* string that float() / datetime.fromisoformat() reject with ValueError;  *)
(* BadType is a value of another type (float([1]) raises TypeError,        *)
(* (5).replace raises AttributeError).  Readings and timestamps proper are *)
(* naturals.                                                               *)
(***************************************************************************)
NULL == -1

NaN == -2

BadStr == -3

BadType == -4

NoText == "NULL"

\* bool(x) of a JSON value: None, 0 and "" are falsy; nan, other numbers,
\* non-empty strings and lists are truthy.
Truthy(x) == x # NULL /\ x # 0

\* float(x): [exc, v]
ParseFloat(x) ==
    IF x = BadStr THEN [exc |-> "ValueError", v |-> NULL]
    ELSE IF x = BadType THEN [exc |-> "TypeError", v |-> NULL]
    ELSE [exc |-> "none", v |-> x]

\* datetime.fromisoformat(x.replace("Z", "+00:00")): [exc, v]
ParseTime(x) ==
    IF x = BadStr THEN [exc |-> "ValueError", v |-> NULL]
    ELSE IF x \in {BadType, NaN} THEN [exc |-> "AttributeError", v |-> NULL]
    ELSE [exc |-> "none", v |-> x]

\* sqlite3 binds a float NaN as SQL NULL.
BindReal(x) == IF x = NaN THEN NULL ELSE x

\* Python float comparison a <= b: False whenever an operand is nan.
FloatLE(a, b) == a # NaN /\ b # NaN /\ a <= b

(***************************************************************************)
(* State                                                                   *)
(***************************************************************************)
VARIABLES
    devices,              \* table devices: rows [device_urn, last_seen, last_reading]
    device_fetch_status,  \* table device_fetch_status: rows [device_urn, fetch_status, error_message, last_measurement_time]
    measurements,         \* table measurements: bag of rows [device_urn, when_captured, lnd_7318u]
    deleted_devices,      \* table deleted_devices: set of device_urn
    alert_thresholds,     \* table alert_thresholds: rows [device_urn, threshold_cpm, alert_email, alert_enabled, last_alert_sent, alert_cooldown_minutes]
    requests,             \* per call of /api/fetch-device-data: its BackgroundTasks queue and the running fetch task
    alert_tasks,          \* bag of check_and_trigger_alerts tasks [device_urn, cpm_value, pc, config]: created, or awaiting their notification
    now,                  \* wall clock, minutes
    sent,                 \* per device: time of the last notification dispatch (NULL: none yet)
    last,                 \* what the last handler did (observation only)
    periodic              \* the periodic task of lifespan: [pc, wake_at, last_cleanup, cycles, outcome, handled]

vars == <<devices, device_fetch_status, measurements, deleted_devices,
          alert_thresholds, requests, alert_tasks, now, sent, last, periodic>>

dbvars == <<devices, device_fetch_status, measurements, deleted_devices, alert_thresholds>>

(***************************************************************************)
(* Table helpers                                                           *)
(***************************************************************************)
Has(tbl, u) == \E r \in tbl : r.device_urn = u

RowOf(tbl, u) == CHOOSE r \in tbl : r.device_urn = u

Without(tbl, u) == {r \in tbl : r.device_urn # u}

StatusOf(tbl, u) == IF Has(tbl, u) THEN RowOf(tbl, u).fetch_status ELSE "absent"

\* INSERT OR IGNORE INTO devices (device_urn, ...): other columns NULL.
InsertOrIgnoreDevice(tbl, u) ==
    IF Has(tbl, u) THEN tbl
    ELSE tbl \cup {[device_urn |-> u, last_seen |-> NULL, last_reading |-> NULL]}

\* No row is inserted.
KeepStatus(tbl, u) == tbl

\* INSERT OR IGNORE INTO device_fetch_status (device_urn, fetch_status) VALUES (?, 'pending')
InsertOrIgnoreStatus(tbl, u) ==
    IF Has(tbl, u) THEN tbl
    ELSE tbl \cup {[device_urn |-> u, fetch_status |-> "pending",
                    error_message |-> NoText, last_measurement_time |-> NULL]}

\* UNIQUE(device_urn, when_captured, lnd_7318u): two rows conflict when the
\* three columns are equal and none of them is NULL (NULLs are distinct).
UniqueConflict(meas, row) ==
    /\ row.when_captured # NULL
    /\ row.lnd_7318u # NULL
    /\ BagIn(row, meas)

\* INSERT OR IGNORE INTO measurements (...)
InsertOrIgnoreMeasurement(meas, u, when, reading) ==
    LET row == [device_urn |-> u, when_captured |-> when, lnd_7318u |-> BindReal(reading)]
    IN IF UniqueConflict(meas, row) THEN meas ELSE meas (+) SetToBag({row})

\* UPDATE devices SET ... without its WHERE clause: every row is written.
UpdateEveryDevice(tbl, u, seen, reading) ==
    {[r EXCEPT !.last_seen = seen, !.last_reading = BindReal(reading)] : r \in tbl}

\* UPDATE devices SET latitude, longitude, last_seen, last_reading WHERE device_urn = ?
UpdateDevice(tbl, u, seen, reading) ==
    {IF r.device_urn = u
     THEN [r EXCEPT !.last_seen = seen, !.last_reading = BindReal(reading)]
     ELSE r : r \in tbl}

(***************************************************************************)
(* init_db                                                                 *)
(***************************************************************************)
RECURSIVE InitDbLoop(_, _, _, _)
\* for device_urn in DEVICE_URNS: skip those of the set init_db holds as
\* deleted_devices, insert the others.
InitDbLoop(i, devs, stat, deleted) ==
    IF i > Len(DEVICE_URNS) THEN [devices |-> devs, device_fetch_status |-> stat]
    ELSE IF DEVICE_URNS[i] \in deleted THEN InitDbLoop(i + 1, devs, stat, deleted)
    ELSE InitDbLoop(i + 1, InsertOrIgnoreDevice(devs, DEVICE_URNS[i]),
                    InsertOrIgnoreStatus(stat, DEVICE_URNS[i]), deleted)

InitDbResult(devs, stat, deleted) == InitDbLoop(1, devs, stat, deleted)

\* deleted_devices = set(); try: the SELECT of the table fills it; except
\* Exception: a warning is logged and the set stays empty.
ReadDeletedDevices(deleted, select_fails) == IF select_fails THEN {} ELSE deleted

\* How a run of init_db goes: "ok"; "select_fails", the SELECT of
\* deleted_devices raises and the run goes on; "raises", another statement
\* or the commit raises, the run is rolled back and init_db raises.
InitDbOutcomes == {"ok", "select_fails", "raises"}

NoRequest == [pc |-> "unused", queue |-> <<>>, urn |-> "", fetch_status |-> "error",
              error_message |-> NoText, exc |-> "none", last_measurement_time |-> NULL]

NoOp == [op |-> "none"]

(***************************************************************************)
(* GET /api/fetch-device-data                                              *)
(***************************************************************************)
\* Every configured URN, in the table or not.
AllConfigured(devs) == DEVICE_URNS

\* for device_urn_candidate in DEVICE_URNS: keep those found in devices.
DevicesToFetch(devs) == SelectSeq(DEVICE_URNS, LAMBDA u : Has(devs, u))

\* INSERT OR REPLACE INTO device_fetch_status (device_urn, last_fetched,
\* fetch_status, error_message) VALUES (?, CURRENT_TIMESTAMP, 'fetching', NULL):
\* the replaced row loses its other columns.
ReplaceStatusFetching(tbl, u) ==
    Without(tbl, u) \cup {[device_urn |-> u, fetch_status |-> "fetching",
                           error_message |-> NoText, last_measurement_time |-> NULL]}

RECURSIVE MarkFetching(_, _)
MarkFetching(tbl, todo) ==
    IF todo = <<>> THEN tbl
    ELSE MarkFetching(ReplaceStatusFetching(tbl, Head(todo)), Tail(todo))

\* str(e)[:255] of the sqlite3 error that the except clause stores.
DatabaseErrorText == "database is locked"

\* UPDATE device_fetch_status SET fetch_status = 'error', error_message = ?
\* WHERE device_urn = ?, for each device of devices_to_fetch.
RECURSIVE MarkError(_, _, _)
MarkError(tbl, todo, msg) ==
    IF todo = <<>> THEN tbl
    ELSE MarkError({IF row.device_urn = Head(todo)
                    THEN [row EXCEPT !.fetch_status = "error", !.error_message = msg]
                    ELSE row : row \in tbl},
                   Tail(todo), msg)

\* Where the database can fail in a call: 0, nowhere; i in 1 .. n, at the
\* SELECT for DEVICE_URNS[i]; n + k, at the INSERT OR REPLACE for the k-th
\* device to fetch; n + m + 1, at the commit (n configured URNs, m devices
\* to fetch; a call with no device to fetch runs the SELECTs only).
FetchFaults(devs) ==
    LET n == Len(DEVICE_URNS)
        m == Len(DevicesToFetch(devs))
    IN 0 .. (IF m = 0 THEN n ELSE n + m + 1)

\* devices_to_fetch when the call fails at fault: the devices found by the
\* SELECTs that have run.
IntendedAt(devs, fault) ==
    IF fault \in 1 .. Len(DEVICE_URNS)
    THEN SelectSeq(SubSeq(DEVICE_URNS, 1, fault - 1), LAMBDA u : Has(devs, u))
    ELSE DevicesToFetch(devs)

\* The devices whose INSERT OR REPLACE has run when the call fails at fault.
ReplacedAt(devs, fault) ==
    IF fault \in 1 .. Len(DEVICE_URNS) THEN <<>>
    ELSE SubSeq(DevicesToFetch(devs), 1, fault - Len(DEVICE_URNS) - 1)

\* The endpoint, called by the periodic task, at startup or by hand.  Its
\* background tasks run one after the other once the response is sent.
\* fault: where the database fails (0: nowhere).  The except clause then
\* writes 'error' and the text of the exception to the rows of
\* devices_to_fetch and commits, on the connection that holds the INSERT OR
\* REPLACE statements already run (recovered), or fails too and nothing is
\* committed; the call raises HTTPException, get_db answers 500 and the
\* tasks added to background_tasks are not run.
FetchDeviceData(r, fault, recovered) ==
    /\ requests[r].pc = "unused"
    /\ \A q \in DOMAIN requests : q < r => requests[q].pc # "unused"
    /\ fault \in FetchFaults(devices)
    /\ fault = 0 => recovered
    /\ LET todo == DevicesToFetch(devices)
           intended == IntendedAt(devices, fault)
       IN IF fault = 0
          THEN /\ device_fetch_status' = MarkFetching(device_fetch_status, todo)
               /\ requests' = [requests EXCEPT ![r] =
                      [NoRequest EXCEPT !.pc = IF todo = <<>> THEN "done" ELSE "start",
                                        !.queue = todo]]
               /\ last' = [op |-> "fetch_device_data", code |-> 200,
                           status |-> IF todo = <<>> THEN "no_devices_to_fetch"
                                      ELSE "fetch_started",
                           scheduled |-> todo, fault |-> fault, intended |-> intended,
                           recovered |-> recovered]
          ELSE /\ device_fetch_status' =
                      IF recovered
                      THEN MarkError(MarkFetching(device_fetch_status,
                                                  ReplacedAt(devices, fault)),
                                     intended, DatabaseErrorText)
                      ELSE device_fetch_status
               /\ requests' = [requests EXCEPT ![r] = [NoRequest EXCEPT !.pc = "failed"]]
               /\ last' = [op |-> "fetch_device_data", code |-> 500,
                           status |-> "Database connection error",
                           scheduled |-> <<>>, fault |-> fault, intended |-> intended,
                           recovered |-> recovered]
    /\ UNCHANGED <<devices, measurements, deleted_devices, alert_thresholds,
                   alert_tasks, now, sent, periodic>>

(***************************************************************************)
(* fetch_and_store_device_data                                             *)
(***************************************************************************)
\* finally: if the row still says 'fetching', write the task's status and
\* (error_message or "Interrupted").  fails: the database fails in the block
\* too; the exception is logged (CRITICAL) and the row stays as it is.
FinallyBlock(tbl, u, fetch_status, error_message, fails) ==
    IF fails THEN tbl
    ELSE IF StatusOf(tbl, u) = "fetching"
    THEN {IF r.device_urn = u
          THEN [r EXCEPT !.fetch_status = fetch_status,
                         !.error_message = IF error_message = NoText THEN "Interrupted"
                                           ELSE error_message]
          ELSE r : r \in tbl}
    ELSE tbl

\* UPDATE device_fetch_status SET fetch_status = 'fetching', last_attempted = ?,
\* error_message = NULL WHERE device_urn = ?
SetFetching(tbl, u) ==
    {IF r.device_urn = u
     THEN [r EXCEPT !.fetch_status = "fetching", !.error_message = NoText]
     ELSE r : r \in tbl}

\* The task is over: BackgroundTasks runs the next one of the same request.
NextTask(req) ==
    [NoRequest EXCEPT !.pc = IF Tail(req.queue) = <<>> THEN "done" ELSE "start",
                      !.queue = Tail(req.queue)]

\* except clauses of the outer try: the message each one leaves.
HandlerMessage(exc, error_message) ==
    IF exc = "HTTPStatusError" THEN "HTTP error"
    ELSE IF exc = "RequestError" THEN "Request error"
    ELSE IF exc = "JSONDecodeError" THEN "JSON decode error"
    ELSE IF exc = "ValueError"
         THEN (IF error_message = NoText THEN "ValueError" ELSE error_message)
    ELSE "Unexpected error"

\* First segment of the task, up to the await of the upstream GET.  fail: the
\* database fails in the first "with get_db()" block (SELECT, UPDATE or
\* commit): nothing of the block is committed, get_db raises HTTPException,
\* the last except clause sets the message, the finally block runs and no
\* upstream request is made.
TaskStart(r, fail) ==
    /\ requests[r].pc = "start"
    /\ LET u == Head(requests[r].queue)
           msg == HandlerMessage("HTTPException", NoText)
       IN IF fail
          THEN /\ \E fails \in BOOLEAN :
                     /\ device_fetch_status' =
                           FinallyBlock(device_fetch_status, u, "error", msg, fails)
                     /\ last' = [op |-> "fetch_task_done", urn |-> u,
                                 exc |-> "HTTPException", fetch_status |-> "error",
                                 error_message |-> msg, started |-> FALSE,
                                 finally_failed |-> fails]
               /\ requests' = [requests EXCEPT ![r] = NextTask(@)]
          ELSE IF ~Has(devices, u)
          THEN \* early return: its UPDATE is never committed; finally runs
               /\ \E fails \in BOOLEAN :
                     /\ device_fetch_status' =
                           FinallyBlock(device_fetch_status, u, "error", NoText, fails)
                     /\ last' = [op |-> "fetch_task_done", urn |-> u, exc |-> "none",
                                 fetch_status |-> "error", error_message |-> NoText,
                                 started |-> FALSE, finally_failed |-> fails]
               /\ requests' = [requests EXCEPT ![r] = NextTask(@)]
          ELSE /\ device_fetch_status' = SetFetching(device_fetch_status, u)
               /\ requests' = [requests EXCEPT ![r].pc = "http", ![r].urn = u]
               /\ last' = [op |-> "fetch_task_start", urn |-> u]
    /\ UNCHANGED <<devices, measurements, deleted_devices, alert_thresholds,
                   alert_tasks, now, sent, periodic>>

\* A geiger_history entry reaches its INSERT when it is a dict, when_captured
\* and lnd_7318u are truthy and convert, and loc_lat and loc_lon, when the
\* entry carries them, convert too.
EntryValid(e) ==
    /\ e.is_dict
    /\ e.when_captured # NULL
    /\ Truthy(e.lnd_7318u)
    /\ ParseFloat(e.lnd_7318u).exc = "none"
    /\ ParseTime(e.when_captured).exc = "none"
    /\ e.loc_lat # NULL => ParseFloat(e.loc_lat).exc = "none"
    /\ e.loc_lon # NULL => ParseFloat(e.loc_lon).exc = "none"

RECURSIVE HistoryLoopStops(_, _, _, _, _)
\* A history loop that ends at the first entry it cannot insert.
HistoryLoopStops(meas, u, hist, i, fail) ==
    IF i > Len(hist) THEN meas
    ELSE IF EntryValid(hist[i]) /\ fail # 2 + i
         THEN HistoryLoopStops(InsertOrIgnoreMeasurement(meas, u, hist[i].when_captured,
                                                         hist[i].lnd_7318u),
                               u, hist, i + 1, fail)
         ELSE meas

RECURSIVE HistoryLoop(_, _, _, _, _)
\* for entry in geiger_history: the i-th entry's INSERT is statement 2 + i of
\* the transaction; an entry that fails anywhere is skipped.
HistoryLoop(meas, u, hist, i, fail) ==
    IF i > Len(hist) THEN meas
    ELSE IF EntryValid(hist[i]) /\ fail # 2 + i
         THEN HistoryLoop(InsertOrIgnoreMeasurement(meas, u, hist[i].when_captured,
                                                    hist[i].lnd_7318u),
                          u, hist, i + 1, fail)
         ELSE HistoryLoop(meas, u, hist, i + 1, fail)

\* Number of the COMMIT among the statements of the store transaction:
\* 1 UPDATE devices, 2 INSERT of the current reading, 2 + i INSERT of history
\* entry i, then COMMIT.
CommitStmt(hist) == 3 + Len(hist)

\* The store block on a connection in autocommit mode: each statement that
\* ran before the failure stays.
StoreBlockAutocommit(devs, meas, u, seen, reading, hist, fail) ==
    LET d1 == UpdateDevice(devs, u, seen, reading)
        m1 == InsertOrIgnoreMeasurement(meas, u, seen, reading)
        m2 == HistoryLoop(m1, u, hist, 1, fail)
    IN IF fail = 1
       THEN [committed |-> FALSE, spawned |-> FALSE, devices |-> devs, measurements |-> meas]
       ELSE IF fail = 2
       THEN [committed |-> FALSE, spawned |-> FALSE, devices |-> d1, measurements |-> meas]
       ELSE IF fail = CommitStmt(hist)
       THEN [committed |-> FALSE, spawned |-> TRUE, devices |-> d1, measurements |-> m2]
       ELSE [committed |-> TRUE, spawned |-> TRUE, devices |-> d1, measurements |-> m2]

\* with get_db() as conn: ... conn.commit().  fail = 0: every statement
\* succeeds; fail = k: statement k raises.  The connection is closed without
\* commit when an exception leaves the block, which rolls the writes back.
\* [committed, spawned, devices, measurements]
StoreBlock(devs, meas, u, seen, reading, hist, fail) ==
    LET d1 == UpdateDevice(devs, u, seen, reading)
        m1 == InsertOrIgnoreMeasurement(meas, u, seen, reading)
        m2 == HistoryLoop(m1, u, hist, 1, fail)
    IN IF fail \in {1, 2}
       THEN [committed |-> FALSE, spawned |-> FALSE, devices |-> devs, measurements |-> meas]
       ELSE IF fail = CommitStmt(hist)
       THEN [committed |-> FALSE, spawned |-> TRUE, devices |-> devs, measurements |-> meas]
       ELSE [committed |-> TRUE, spawned |-> TRUE, devices |-> d1, measurements |-> m2]

Outcome(exc, fetch_status, error_message, lmt, devs, meas, spawned, cpm) ==
    [exc |-> exc, fetch_status |-> fetch_status, error_message |-> error_message,
     last_measurement_time |-> lmt, devices |-> devs, measurements |-> meas,
     spawned |-> spawned, cpm |-> cpm]

\* The body of the outer try from the upstream response to the end of the
\* "async with" block: what it leaves in the task's locals and in the tables,
\* and the exception that leaves it, if any.
ProcessResponse(devs, meas, u, resp, fail) ==
    LET Raise(e, msg) == Outcome(e, "error", msg, NULL, devs, meas, FALSE, NULL)
        Local(st, msg, lmt) == Outcome("none", st, msg, lmt, devs, meas, FALSE, NULL)
        lat == ParseFloat(resp.loc_lat)
        lon == ParseFloat(resp.loc_lon)
        rad == ParseFloat(resp.lnd_7318u)
        ts  == ParseTime(resp.when_captured)
        firstExc == IF lat.exc # "none" THEN lat.exc
                    ELSE IF lon.exc # "none" THEN lon.exc
                    ELSE IF rad.exc # "none" THEN rad.exc
                    ELSE ts.exc
        st == StoreBlock(devs, meas, u, ts.v, rad.v, resp.geiger_history, fail)
    IN IF resp.http = "request_error" THEN Raise("RequestError", NoText)
       ELSE IF resp.http = "status_error" THEN Raise("HTTPStatusError", NoText)
       ELSE IF resp.body = "not_json" THEN Raise("JSONDecodeError", NoText)
       ELSE IF resp.body = "not_object" THEN Raise("ValueError", "Unexpected data type")
       ELSE IF resp.cv = "absent" THEN Local("no_data", "No current_values", NULL)
       ELSE IF resp.cv = "not_dict" THEN Raise("AttributeError", NoText)
       ELSE IF resp.loc_lat = NULL \/ resp.loc_lon = NULL \/ resp.lnd_7318u = NULL
               \/ resp.when_captured = NULL
            THEN Local("error", "Missing data", NULL)
       ELSE IF firstExc = "ValueError" THEN Local("error", "Data parsing error", NULL)
       ELSE IF firstExc # "none" THEN Local("error", "DB update error", NULL)
       ELSE IF st.committed
            THEN Outcome("none", "completed", NoText, ts.v, st.devices, st.measurements,
                         TRUE, rad.v)
            ELSE Outcome("none", "error", "DB update error", ts.v, st.devices,
                         st.measurements, st.spawned, rad.v)

\* Statements of the store transaction that can fail for this response.
FailPoints(resp) == 0 .. CommitStmt(resp.geiger_history)

\* The alert_thresholds row the check reads; alert_enabled is false when the
\* device has none.
AlertConfigOf(tbl, u) ==
    IF Has(tbl, u) THEN RowOf(tbl, u)
    ELSE [device_urn |-> u, threshold_cpm |-> NULL, alert_email |-> FALSE,
          alert_enabled |-> FALSE, last_alert_sent |-> NULL,
          alert_cooldown_minutes |-> NULL]

\* asyncio.create_task(check_and_trigger_alerts(device_urn, cpm_value)): the
\* task has not run yet and has read no configuration.
AlertTask(u, cpm) ==
    [device_urn |-> u, cpm_value |-> cpm, pc |-> "created",
     config |-> AlertConfigOf({}, u)]

\* Second segment: the upstream answer arrives (or the request fails), the
\* response is parsed and stored; the task then awaits the client's close.
TaskResponse(r, resp, fail) ==
    /\ requests[r].pc = "http"
    /\ LET u == requests[r].urn
           o == ProcessResponse(devices, measurements, u, resp, fail)
       IN /\ devices' = o.devices
          /\ measurements' = o.measurements
          /\ alert_tasks' = IF o.spawned
                            THEN alert_tasks (+) SetToBag({AlertTask(u, o.cpm)})
                            ELSE alert_tasks
          /\ requests' = [requests EXCEPT ![r].pc = "closing", ![r].exc = o.exc,
                             ![r].fetch_status = o.fetch_status,
                             ![r].error_message = o.error_message,
                             ![r].last_measurement_time = o.last_measurement_time]
          /\ last' = [op |-> "fetch_task_response", urn |-> u, resp |-> resp, fail |-> fail,
                      fetch_status |-> o.fetch_status, spawned |-> o.spawned]
    /\ UNCHANGED <<device_fetch_status, deleted_devices, alert_thresholds, now, sent, periodic>>

\* "Final status update after attempt": UPDATE device_fetch_status SET
\* fetch_status, last_fetched, error_message [, last_measurement_time] WHERE ...
FinalStatusUpdate(tbl, u, fetch_status, error_message, lmt) ==
    {IF r.device_urn = u
     THEN [r EXCEPT !.fetch_status = fetch_status, !.error_message = error_message,
                    !.last_measurement_time = IF lmt # NULL THEN lmt ELSE @]
     ELSE r : r \in tbl}

\* Last segment: the final status update when no exception is in flight,
\* else the matching except clause; then the finally block.  fail: the
\* "with get_db()" block of the final status update raises, which the last
\* except clause catches.  fails: the database fails in the finally block.
TaskFinish(r, fail, fails) ==
    /\ requests[r].pc = "closing"
    /\ fail => requests[r].exc = "none"
    /\ LET q == requests[r]
           u == q.urn
           exc == IF fail /\ q.exc = "none" THEN "HTTPException" ELSE q.exc
           fetch_status == IF exc = "none" THEN q.fetch_status ELSE "error"
           msg == IF exc = "none" THEN q.error_message
                  ELSE HandlerMessage(exc, q.error_message)
           t1 == IF exc = "none"
                 THEN FinalStatusUpdate(device_fetch_status, u, q.fetch_status,
                                        q.error_message, q.last_measurement_time)
                 ELSE device_fetch_status
       IN /\ device_fetch_status' = FinallyBlock(t1, u, fetch_status, msg, fails)
          /\ last' = [op |-> "fetch_task_done", urn |-> u, exc |-> exc,
                      fetch_status |-> fetch_status, error_message |-> msg,
                      started |-> TRUE, finally_failed |-> fails]
    /\ requests' = [requests EXCEPT ![r] = NextTask(@)]
    /\ UNCHANGED <<devices, measurements, deleted_devices, alert_thresholds,
                   alert_tasks, now, sent, periodic>>

(***************************************************************************)
(* check_and_trigger_alerts and the alert configuration                    *)
(***************************************************************************)
\* What one alert check decides: "no_config", "disabled", "below",
\* "cooldown" or "alert".
AlertDecision(tbl, u, cpm, t) ==
    IF ~Has(tbl, u) THEN "no_config"
    ELSE LET a == RowOf(tbl, u)
         IN IF ~a.alert_enabled THEN "disabled"
            ELSE IF FloatLE(cpm, a.threshold_cpm) THEN "below"
            ELSE IF a.last_alert_sent # NULL
                    /\ t - a.last_alert_sent < a.alert_cooldown_minutes THEN "cooldown"
            ELSE "alert"

\* UPDATE alert_thresholds SET last_alert_sent = ? WHERE device_urn = ?
MarkAlertSent(tbl, u, t) ==
    {IF r.device_urn = u THEN [r EXCEPT !.last_alert_sent = t] ELSE r : r \in tbl}

\* One created alert task runs up to its await: it reads the configuration
\* and, when it decides to alert, commits last_alert_sent.  With an address
\* in the row it then awaits the notification, which is sent in a later
\* step; without one it is done.  fail: the database fails in the block (at
\* the SELECT, or at the UPDATE or its commit); "except Exception" logs the
\* error, nothing is committed and nothing is sent.
CheckAndTriggerAlerts(task, fail) ==
    /\ BagIn(task, alert_tasks)
    /\ task.pc = "created"
    /\ LET u == task.device_urn
           d == IF fail THEN "error"
                ELSE AlertDecision(alert_thresholds, u, task.cpm_value, now)
           config == AlertConfigOf(alert_thresholds, u)
           notified == d = "alert" /\ config.alert_email
       IN /\ alert_thresholds' = IF d = "alert" THEN MarkAlertSent(alert_thresholds, u, now)
                                 ELSE alert_thresholds
          /\ alert_tasks' =
                IF notified
                THEN (alert_tasks (-) SetToBag({task})) (+)
                        SetToBag({[task EXCEPT !.pc = "notifying", !.config = config]})
                ELSE alert_tasks (-) SetToBag({task})
          /\ last' = [op |-> "check_and_trigger_alerts", urn |-> u, cpm |-> task.cpm_value,
                      decision |-> d, notified |-> notified, at |-> now,
                      found |-> Has(alert_thresholds, u), config |-> config]
    /\ UNCHANGED <<devices, device_fetch_status, measurements, deleted_devices,
                   requests, now, sent, periodic>>

\* send_email_alert, run by asyncio.gather for an alert task that awaits its
\* notification: the e-mail goes to the address the check has read.
SendEmailAlert(task) ==
    /\ BagIn(task, alert_tasks)
    /\ task.pc = "notifying"
    /\ alert_tasks' = alert_tasks (-) SetToBag({task})
    /\ sent' = [sent EXCEPT ![task.device_urn] = now]
    /\ last' = [op |-> "send_email_alert", urn |-> task.device_urn,
                cpm |-> task.cpm_value, at |-> now,
                previous |-> sent[task.device_urn], config |-> task.config]
    /\ UNCHANGED <<devices, device_fetch_status, measurements, deleted_devices,
                   alert_thresholds, requests, now, periodic>>

\* get_db: an exception leaving a "with get_db()" block, an HTTPException
\* included, is replaced by HTTPException(500, "Database connection error").
ThroughGetDb(code) == IF code = 200 THEN 200 ELSE 500

\* The detail of the answer: that of the handler's own HTTPException is lost.
DetailThroughGetDb(code, detail) ==
    IF code = 200 THEN "ok" ELSE "Database connection error"

\* POST /api/admin/alerts: INSERT OR REPLACE without last_alert_sent.
SetAlertConfig(u, threshold, email, enabled, cooldown) ==
    /\ alert_thresholds' =
          IF Has(devices, u)
          THEN Without(alert_thresholds, u) \cup
                  {[device_urn |-> u, threshold_cpm |-> threshold, alert_email |-> email,
                    alert_enabled |-> enabled, last_alert_sent |-> NULL,
                    alert_cooldown_minutes |-> cooldown]}
          ELSE alert_thresholds
    /\ last' = [op |-> "set_alert_config", urn |-> u,
                code |-> ThroughGetDb(IF Has(devices, u) THEN 200 ELSE 404),
                detail |-> DetailThroughGetDb(IF Has(devices, u) THEN 200 ELSE 404,
                                              "Device not found")]
    /\ UNCHANGED <<devices, device_fetch_status, measurements, deleted_devices,
                   requests, alert_tasks, now, sent, periodic>>

\* GET /api/admin/alerts/{device_urn}: 204 when the device has no row.
GetAlertConfig(u) ==
    /\ last' = [op |-> "get_alert_config", urn |-> u,
                code |-> IF ~Has(devices, u) THEN ThroughGetDb(404)
                         ELSE IF ~Has(alert_thresholds, u) THEN 204 ELSE 200,
                detail |-> DetailThroughGetDb(IF Has(devices, u) THEN 200 ELSE 404,
                                              "Device not found")]
    /\ UNCHANGED <<devices, device_fetch_status, measurements, deleted_devices,
                   alert_thresholds, requests, alert_tasks, now, sent, periodic>>

\* POST /api/admin/alerts/test: for a device of the table the handler sends
\* the test notification to the address of the request before it answers; it
\* reads no alert_thresholds row and leaves last_alert_sent alone.
TestAlert(u, email) ==
    /\ sent' = IF Has(devices, u) /\ email THEN [sent EXCEPT ![u] = now] ELSE sent
    /\ last' = [op |-> "test_alert", urn |-> u,
                code |-> ThroughGetDb(IF Has(devices, u) THEN 200 ELSE 404),
                detail |-> DetailThroughGetDb(IF Has(devices, u) THEN 200 ELSE 404,
                                              "Device not found"),
                notified |-> Has(devices, u) /\ email]
    /\ UNCHANGED <<devices, device_fetch_status, measurements, deleted_devices,
                   alert_thresholds, requests, alert_tasks, now, periodic>>

(***************************************************************************)
(* Admin endpoints and init_db                                             *)
(***************************************************************************)
\* POST /api/admin/devices: the INSERT fails on an existing device_urn.
AddDevice(u) ==
    /\ devices' = IF Has(devices, u) THEN devices ELSE InsertOrIgnoreDevice(devices, u)
    /\ device_fetch_status' = IF Has(devices, u) THEN device_fetch_status
                              ELSE InsertOrIgnoreStatus(device_fetch_status, u)
    /\ last' = [op |-> "add_device", urn |-> u,
                code |-> ThroughGetDb(IF Has(devices, u) THEN 400 ELSE 200)]
    /\ UNCHANGED <<measurements, deleted_devices, alert_thresholds, requests,
                   alert_tasks, now, sent, periodic>>

\* DELETE /api/admin/devices/{device_urn}: rolled back when no device row
\* was deleted.
RemoveDevice(u) ==
    /\ devices' = Without(devices, u)
    /\ device_fetch_status' = IF Has(devices, u) THEN Without(device_fetch_status, u)
                              ELSE device_fetch_status
    /\ deleted_devices' = IF Has(devices, u) THEN deleted_devices \cup {u}
                          ELSE deleted_devices
    /\ last' = [op |-> "remove_device", urn |-> u,
                code |-> ThroughGetDb(IF Has(devices, u) THEN 200 ELSE 400),
                detail |-> DetailThroughGetDb(IF Has(devices, u) THEN 200 ELSE 400,
                                              "404: Device not found")]
    /\ UNCHANGED <<measurements, alert_thresholds, requests, alert_tasks, now, sent, periodic>>

\* POST /api/admin/devices/restore/{device_urn}: commits only for a deleted
\* URN of DEVICE_URNS; the other paths leave with an HTTPException and the
\* connection is closed without commit.
RestoreDevice(u) ==
    LET ok == u \in deleted_devices /\ u \in Configured
    IN /\ deleted_devices' = IF ok THEN deleted_devices \ {u} ELSE deleted_devices
       /\ devices' = IF ok THEN InsertOrIgnoreDevice(devices, u) ELSE devices
       /\ device_fetch_status' = IF ok THEN InsertOrIgnoreStatus(device_fetch_status, u)
                                 ELSE device_fetch_status
       /\ last' = [op |-> "restore_device", urn |-> u,
                   code |-> ThroughGetDb(IF ok THEN 200
                                         ELSE IF u \in deleted_devices THEN 400 ELSE 404)]
       /\ UNCHANGED <<measurements, alert_thresholds, requests, alert_tasks, now, sent, periodic>>

\* init_db(), run when the module is loaded and again when main.py is run as
\* a script (a server start); nothing in it waits for fetch or alert tasks.
\* add_sample_data, the one other caller, is AddSampleData below.  The
\* tables exist already (CREATE TABLE IF NOT EXISTS); the loop runs with the
\* set of deleted URNs the run has read, and the commit keeps its inserts
\* unless the run raises.
InitDb(outcome) ==
    /\ LET deleted == ReadDeletedDevices(deleted_devices, outcome = "select_fails")
           res == InitDbResult(devices, device_fetch_status, deleted)
       IN /\ devices' = IF outcome = "raises" THEN devices ELSE res.devices
          /\ device_fetch_status' = IF outcome = "raises" THEN device_fetch_status
                                    ELSE res.device_fetch_status
    /\ last' = [op |-> "init_db", outcome |-> outcome]
    /\ UNCHANGED <<measurements, deleted_devices, alert_thresholds, requests,
                   alert_tasks, now, sent, periodic>>

(***************************************************************************)
(* add_sample_data                                                         *)
(***************************************************************************)
\* for day in range(30)
SampleDays == 30

\* for hour in range(0, 24, 3)
SampleHours == {3 * k : k \in 0 .. 7}

\* cpm = 20 + (0 - 0.5) * 10
SampleCpm == 15

\* The sample measurements: one row of safecast:12345 every three hours of
\* the thirty days before t.
SampleMeasurements(t) ==
    SetToBag({[device_urn |-> OTHER_URN,
               when_captured |-> (t - SampleDays * Day) + day * Day + hour * 60,
               lnd_7318u |-> SampleCpm] : day \in 0 .. SampleDays - 1, hour \in SampleHours})

\* add_sample_data(conn), a function of the module that no endpoint, task
\* or start-up path calls: a maintenance script has to call it with a
\* connection of its own.  It runs init_db() first, on another connection
\* (when that raises, so does the call); then, on conn, it deletes every row
\* of measurements and of devices (the DELETEs of locations and
\* transport_info fail, those tables do not exist, and are caught), fails to
\* insert the sample device (devices has no column "device"; caught) and
\* inserts the sample measurements.  It never commits: the rows are kept
\* only when the caller commits.
AddSampleData(outcome, commits) ==
    /\ LET deleted == ReadDeletedDevices(deleted_devices, outcome = "select_fails")
           res == InitDbResult(devices, device_fetch_status, deleted)
           ran == outcome # "raises"
       IN /\ devices' = IF ~ran THEN devices
                        ELSE IF commits THEN {} ELSE res.devices
          /\ device_fetch_status' = IF ran THEN res.device_fetch_status
                                    ELSE device_fetch_status
          /\ measurements' = IF ran /\ commits THEN SampleMeasurements(now)
                             ELSE measurements
    /\ last' = [op |-> "add_sample_data", outcome |-> outcome, commits |-> commits]
    /\ UNCHANGED <<deleted_devices, alert_thresholds, requests, alert_tasks, now,
                   sent, periodic>>

(***************************************************************************)
(* cleanup_old_data                                                        *)
(***************************************************************************)
\* SQLite values carry a storage class.  A datetime is stored as TEXT.
SqlText(t) == [cls |-> "text", v |-> t]

\* Gregorian leap year.
IsLeap(y) == y % 4 = 0 /\ (y % 100 # 0 \/ y % 400 = 0)

DaysIn(y) == IF IsLeap(y) THEN 366 ELSE 365

RECURSIVE YearFrom(_, _)
\* The year of day d, counted from the first day of year y.
YearFrom(y, d) ==
    IF d < 0 THEN YearFrom(y - 1, d + DaysIn(y - 1))
    ELSE IF d >= DaysIn(y) THEN YearFrom(y + 1, d - DaysIn(y))
    ELSE y

\* Calendar year of a time, the leading digits of its isoformat() text; the
\* clock counts minutes from 2025-01-01T00:00.
YearOf(t) == YearFrom(2025, t \div Day)

\* CAST(x AS TIMESTAMP): TIMESTAMP is no SQLite type name, so the cast has
\* NUMERIC affinity and keeps the longest numeric prefix of the text, the year.
CastAsTimestamp(x) == [cls |-> "integer", v |-> YearOf(x.v)]

\* a < b in SQLite: within a storage class by value, an INTEGER before any TEXT.
SqlLess(a, b) ==
    IF a.cls = b.cls THEN a.v < b.v
    ELSE a.cls = "integer" /\ b.cls = "text"

\* Rows the DELETE ... WHERE when_captured < CAST(? AS TIMESTAMP) matches.
CleanupMatches(meas, cutoff) ==
    {m \in BagToSet(meas) : SqlLess(SqlText(m.when_captured), CastAsTimestamp(SqlText(cutoff)))}

\* Bag meas without every copy of the rows in gone.
DeleteRows(meas, gone) ==
    [m \in BagToSet(meas) \ gone |-> CopiesIn(m, meas)]

CleanupOldData ==
    /\ LET cutoff == now - MAX_DATA_DAYS * Day
           gone == CleanupMatches(measurements, cutoff)
       IN /\ measurements' = DeleteRows(measurements, gone)
          /\ last' = [op |-> "cleanup_old_data", cutoff |-> cutoff,
                      deleted |-> Cardinality(gone)]
    /\ UNCHANGED <<devices, device_fetch_status, deleted_devices, alert_thresholds,
                   requests, alert_tasks, now, sent, periodic>>

\* Time passes.
Tick(dt) ==
    /\ now' = now + dt
    /\ UNCHANGED <<devices, device_fetch_status, measurements, deleted_devices,
                   alert_thresholds, requests, alert_tasks, sent, last, periodic>>

(***************************************************************************)
(* get_measurements                                                        *)
(***************************************************************************)
FALLBACK_LIMIT == 10

\* x BETWEEN lo AND hi in SQLite: x >= lo AND x <= hi.
SqlBetween(x, lo, hi) == ~SqlLess(x, lo) /\ ~SqlLess(hi, x)

\* The rows of device u, a bag.
RowsOf(meas, u) ==
    [m \in {x \in BagToSet(meas) : x.device_urn = u} |-> CopiesIn(m, meas)]

\* WHERE device_urn = ? AND when_captured BETWEEN CAST(? AS TIMESTAMP) AND
\* CAST(? AS TIMESTAMP)
WindowRows(meas, u, start, end) ==
    [m \in {x \in BagToSet(RowsOf(meas, u)) :
               SqlBetween(SqlText(x.when_captured), CastAsTimestamp(SqlText(start)),
                          CastAsTimestamp(SqlText(end)))} |-> CopiesIn(m, meas)]

\* n copies of row m.
Copies(m, n) == [i \in 1 .. n |-> m]

\* Row a comes before row b (rows captured at the same time: by reading).
RowBefore(a, b) ==
    \/ a.when_captured < b.when_captured
    \/ a.when_captured = b.when_captured /\ a.lnd_7318u <= b.lnd_7318u

RECURSIVE OrderAsc(_)
\* ORDER BY when_captured ASC
OrderAsc(rows) ==
    IF BagToSet(rows) = {} THEN <<>>
    ELSE LET m == CHOOSE x \in BagToSet(rows) : \A y \in BagToSet(rows) : RowBefore(x, y)
         IN Copies(m, CopiesIn(m, rows))
            \o OrderAsc([y \in BagToSet(rows) \ {m} |-> CopiesIn(y, rows)])

Reverse(q) == [i \in 1 .. Len(q) |-> q[Len(q) + 1 - i]]

\* LIMIT n
Limit(q, n) == IF Len(q) <= n THEN q ELSE SubSeq(q, 1, n)

\* The "measurements" list of the answer: the window query, or, when that
\* returns no row, the fallback ORDER BY when_captured DESC LIMIT 10.
MeasurementsAnswer(meas, u, days, t) ==
    LET inWindow == OrderAsc(WindowRows(meas, u, t - days * Day, t))
    IN IF inWindow # <<>> THEN inWindow
       ELSE Limit(Reverse(OrderAsc(RowsOf(meas, u))), FALLBACK_LIMIT)

\* GET /api/measurements/{device_urn}?days=
GetMeasurements(u, days) ==
    /\ last' = [op |-> "get_measurements", urn |-> u, days |-> days, at |-> now,
                code |-> ThroughGetDb(IF Has(devices, u) THEN 200 ELSE 404),
                detail |-> DetailThroughGetDb(IF Has(devices, u) THEN 200 ELSE 404,
                                              "Device not found"),
                measurements |-> IF Has(devices, u)
                                 THEN MeasurementsAnswer(measurements, u, days, now)
                                 ELSE <<>>]
    /\ UNCHANGED <<devices, device_fetch_status, measurements, deleted_devices,
                   alert_thresholds, requests, alert_tasks, now, sent, periodic>>

(***************************************************************************)
(* lifespan: the periodic task                                             *)
(***************************************************************************)
AUTO_REFRESH_INTERVAL_SECONDS == 300

\* asyncio.sleep(AUTO_REFRESH_INTERVAL_SECONDS), in minutes of the clock.
SleepTime == AUTO_REFRESH_INTERVAL_SECONDS \div 60

\* Startup at time t: last_cleanup = datetime.now() - timedelta(days=1), and
\* the task is created; it has not run yet.
LifespanStart(t) ==
    [pc |-> "top", wake_at |-> t, last_cleanup |-> t - Day, cycles |-> 0,
     outcome |-> "none", handled |-> 0]

\* The number of calls /api/fetch-device-data has answered 200 so far.
HandledCalls(reqs) == Cardinality({r \in DOMAIN reqs : reqs[r].pc \notin {"unused", "failed"}})

\* (now - last_cleanup).days >= 1
CleanupDue(t, last_cleanup) == (t - last_cleanup) \div Day >= 1

\* A loop whose try encloses the while: an exception ends the task.
CycleEndsTask(outcome) == IF outcome = "raises" THEN "ended" ELSE "sleeping"

\* Where the task is after a cycle: "except Exception" is inside the loop, so
\* the task reaches asyncio.sleep whatever the cycle did.
AfterCycle(outcome) == "sleeping"

\* Outcomes of the trigger request: answered 200, answered something else,
\* or raised (connection refused, timeout).
TriggerOutcomes == {"ok", "non200", "raises"}

\* Top of the loop, at startup or when the sleep is over: the GET of
\* /api/fetch-device-data is sent and the task awaits the answer.
PeriodicRequest ==
    /\ \/ periodic.pc = "top"
       \/ periodic.pc = "sleeping" /\ now >= periodic.wake_at
    /\ periodic' = [periodic EXCEPT !.pc = "awaiting", !.cycles = @ + 1,
                                    !.handled = HandledCalls(requests)]
    /\ last' = [op |-> "periodic_request", cycle |-> periodic.cycles + 1, at |-> now]
    /\ UNCHANGED <<devices, device_fetch_status, measurements, deleted_devices,
                   alert_thresholds, requests, alert_tasks, now, sent>>

\* The answer arrives (200 once the endpoint has handled a call since the
\* request was sent, whatever ran after it) or the request raises; the task
\* then leaves "async with httpx.AsyncClient()" and awaits the client's close.
PeriodicAnswer(outcome) ==
    /\ periodic.pc = "awaiting"
    /\ outcome = "ok" => HandledCalls(requests) > periodic.handled
    /\ periodic' = [periodic EXCEPT !.pc = "closing", !.outcome = outcome]
    /\ last' = [op |-> "periodic_answer", cycle |-> periodic.cycles,
                outcome |-> outcome, at |-> now]
    /\ UNCHANGED <<devices, device_fetch_status, measurements, deleted_devices,
                   alert_thresholds, requests, alert_tasks, now, sent>>

\* The rest of the cycle, once the client is closed: unless the request
\* raised, the clock is read and cleanup_old_data runs when it is due
\* (cleanup_fails: it fails inside and logs) and last_cleanup is set; then
\* the task sleeps.
PeriodicCleanup(cleanup_fails) ==
    /\ periodic.pc = "closing"
    /\ LET outcome == periodic.outcome
           due == outcome # "raises" /\ CleanupDue(now, periodic.last_cleanup)
           gone == CleanupMatches(measurements, now - MAX_DATA_DAYS * Day)
       IN /\ cleanup_fails => due
          /\ measurements' = IF due /\ ~cleanup_fails THEN DeleteRows(measurements, gone)
                             ELSE measurements
          /\ periodic' = [periodic EXCEPT !.pc = AfterCycle(outcome),
                                          !.wake_at = now + SleepTime,
                                          !.last_cleanup = IF due THEN now ELSE @]
          /\ last' = [op |-> "periodic_cycle", cycle |-> periodic.cycles,
                      outcome |-> outcome, cleanup |-> due,
                      cleanup_failed |-> cleanup_fails, at |-> now]
    /\ UNCHANGED <<devices, device_fetch_status, deleted_devices, alert_thresholds,
                   requests, alert_tasks, now, sent>>

\* Shutdown: background_task.cancel(); the task ends at its await.
Shutdown ==
    /\ periodic.pc \in {"top", "awaiting", "closing", "sleeping"}
    /\ periodic' = [periodic EXCEPT !.pc = "cancelled"]
    /\ last' = [op |-> "shutdown"]
    /\ UNCHANGED <<devices, device_fetch_status, measurements, deleted_devices,
                   alert_thresholds, requests, alert_tasks, now, sent>>

(***************************************************************************)
(* Upstream answers                                                        *)
(***************************************************************************)
Resp(http, body, cv, lat, lon, rad, when, hist) ==
    [http |-> http, body |-> body, cv |-> cv, loc_lat |-> lat, loc_lon |-> lon,
     lnd_7318u |-> rad, when_captured |-> when, geiger_history |-> hist]

\* A geiger_history entry with its position.
EntryAt(when, rad, lat, lon) ==
    [is_dict |-> TRUE, when_captured |-> when, lnd_7318u |-> rad,
     loc_lat |-> lat, loc_lon |-> lon]

\* An entry without loc_lat and loc_lon.
Entry(when, rad) == EntryAt(when, rad, NULL, NULL)

NotADict ==
    [is_dict |-> FALSE, when_captured |-> NULL, lnd_7318u |-> NULL,
     loc_lat |-> NULL, loc_lon |-> NULL]

StatusError == Resp("status_error", "none", "absent", NULL, NULL, NULL, NULL, <<>>)

RequestError == Resp("request_error", "none", "absent", NULL, NULL, NULL, NULL, <<>>)

NotJson == Resp("ok", "not_json", "absent", NULL, NULL, NULL, NULL, <<>>)

NotObject == Resp("ok", "not_object", "absent", NULL, NULL, NULL, NULL, <<>>)

NoCurrentValues == Resp("ok", "object", "absent", NULL, NULL, NULL, NULL, <<>>)

Reading(when, rad, hist) == Resp("ok", "object", "dict", 1, 2, rad, when, hist)

\* Start of the runs: 40 days after the epoch, so that a timestamp of day 0
\* is older than MAX_DATA_DAYS.
T0 == 40 * Day

\* Two capture times: a recent one and one older than the retention period.
Recent == T0 - 10

Old == 5 * Day

(***************************************************************************)
(* Initial states.  The tables are those init_db builds on an empty        *)
(* database, after remove_device for each URN of removed.                  *)
(***************************************************************************)
InitTables(removed) ==
    /\ devices = InitDbResult({}, {}, removed).devices
    /\ device_fetch_status = InitDbResult({}, {}, removed).device_fetch_status
    /\ measurements = EmptyBag
    /\ deleted_devices = removed
    /\ alert_thresholds = {}

\* n calls of /api/fetch-device-data can be made; nothing has run yet.
InitRest(n) ==
    /\ requests = [r \in 1 .. n |-> NoRequest]
    /\ alert_tasks = EmptyBag
    /\ now = T0
    /\ sent = [u \in Urns |-> NULL]
    /\ last = NoOp
    /\ periodic = LifespanStart(T0)

\* All devices but the first one.
Others == {DEVICE_URNS[i] : i \in 2 .. Len(DEVICE_URNS)}

(***************************************************************************)
(* Spec: the fetch pipeline.  Up to MaxCalls calls of the endpoint, whose  *)
(* background tasks overlap; the first device answers with readings or     *)
(* errors, the second is unreachable, the third has no current values.     *)
(* No alert configuration is set here, so no alert check ever awaits a     *)
(* notification: SendEmailAlert is a step of SpecAlert and SpecRead.       *)
(***************************************************************************)
MaxCalls == 2

Upstream(u) ==
    IF u = DEVICE_URNS[1]
    THEN {StatusError,
          Reading(Recent, 30, <<Entry(Old, 25)>>),
          Reading(Recent, NaN, <<>>)}
    ELSE IF u = DEVICE_URNS[2] THEN {RequestError}
    ELSE {NoCurrentValues}

Init == InitTables({}) /\ InitRest(MaxCalls)

Next ==
    \/ \E r \in DOMAIN requests :
          \E fault \in FetchFaults(devices) :
             \E recovered \in BOOLEAN : FetchDeviceData(r, fault, recovered)
    \/ \E r \in DOMAIN requests : \E fail \in BOOLEAN : TaskStart(r, fail)
    \/ \E r \in DOMAIN requests :
          \E resp \in Upstream(requests[r].urn) :
             \E fail \in FailPoints(resp) : TaskResponse(r, resp, fail)
    \/ \E r \in DOMAIN requests : \E fail, fails \in BOOLEAN : TaskFinish(r, fail, fails)
    \/ \E t \in BagToSet(alert_tasks) :
          \E fail \in BOOLEAN : CheckAndTriggerAlerts(t, fail)

Spec == Init /\ [][Next]_vars

(***************************************************************************)
(* SpecOne: the same pipeline when the operator has removed all devices    *)
(* but the first; up to OneCalls overlapping calls.  SpecLive adds the     *)
(* scheduling of the event loop: a task that can run does run, and the     *)
(* upstream GET ends (timeout = 60.0), with an answer or an exception.     *)
(***************************************************************************)
OneCalls == 2

InitOne == InitTables(Others) /\ InitRest(OneCalls)

SpecOne == InitOne /\ [][Next]_vars

TaskStep(r) ==
    \/ \E fail \in BOOLEAN : TaskStart(r, fail)
    \/ \E resp \in Upstream(requests[r].urn) :
          \E fail \in FailPoints(resp) : TaskResponse(r, resp, fail)
    \/ \E fail, fails \in BOOLEAN : TaskFinish(r, fail, fails)

SpecLive == SpecOne /\ \A r \in 1 .. OneCalls : WF_vars(TaskStep(r))

(***************************************************************************)
(* Properties of the fetch pipeline                                        *)
(***************************************************************************)
\* A fetch task for u is scheduled (queued by a call) or running.
TaskPending(u) == \E r \in DOMAIN requests : u \in Range(requests[r].queue)

\* The task of request r is past its start and not yet over.
InFlight(r) == requests[r].pc \in {"http", "closing"}

\* C1: the measurements table never holds two rows with the same
\* (device_urn, when_captured, lnd_7318u), whatever fetches ran, repeated or
\* overlapping.
C1_NoDuplicateMeasurement ==
    \A m \in BagToSet(measurements) : CopiesIn(m, measurements) = 1

\* Everything the store transaction of this response writes for u is in the
\* tables after the step.
AllWritten(u, resp, fail) ==
    /\ \A d \in devices' : d.device_urn = u =>
          d.last_seen = resp.when_captured /\ d.last_reading = BindReal(resp.lnd_7318u)
    /\ BagIn([device_urn |-> u, when_captured |-> resp.when_captured,
              lnd_7318u |-> BindReal(resp.lnd_7318u)], measurements')
    /\ \A i \in DOMAIN resp.geiger_history :
          LET e == resp.geiger_history[i]
          IN EntryValid(e) /\ fail # 2 + i =>
                BagIn([device_urn |-> u, when_captured |-> e.when_captured,
                       lnd_7318u |-> BindReal(e.lnd_7318u)], measurements')

\* C2: the devices-row update, the current reading and every accepted
\* geiger_history entry of one fetch are committed together: a fetch that
\* does not reach its commit leaves devices and measurements as they were,
\* and one that commits has written all of them.
C2_StoreIsAtomic ==
    [][last'.op = "fetch_task_response" =>
          IF last'.fetch_status = "completed"
          THEN AllWritten(last'.urn, last'.resp, last'.fail)
          ELSE devices' = devices /\ measurements' = measurements]_vars

\* C2 witness: a store failed at its UPDATE, its first INSERT or its COMMIT,
\* and nothing of it is in the tables.
C2_Witness ==
    /\ last.op = "fetch_task_response"
    /\ last.fail # 0
    /\ last.fail \in {1, 2, CommitStmt(last.resp.geiger_history)}
    /\ last.fetch_status = "error"
    /\ measurements = EmptyBag
    /\ \A d \in devices : d.last_seen = NULL

Settled == {"completed", "no_data", "error"}

\* The devices left in the devices table in SpecOne and SpecLive.
InService == Configured \ Others

\* C3: a status row set to 'fetching' leaves it, and leaves it for
\* 'completed', 'no_data' or 'error', on every path of the fetch task; and
\* whenever no fetch task is scheduled or running for a device, its status
\* is not 'fetching'.
C3_FetchingEnds ==
    /\ [](\A u \in Configured :
             StatusOf(device_fetch_status, u) = "fetching" => TaskPending(u))
    /\ [][\A u \in Configured :
             (StatusOf(device_fetch_status, u) = "fetching"
                 /\ StatusOf(device_fetch_status', u) # "fetching")
             => StatusOf(device_fetch_status', u) \in Settled]_vars
    /\ \A u \in InService :
          (StatusOf(device_fetch_status, u) = "fetching")
             ~> (StatusOf(device_fetch_status, u) \in Settled)

\* C4: a fetch task that failed has recorded the failure in the device's
\* fetch_status and error_message (no exception leaves the task: every
\* exception class of the model reaches an except clause of TaskFinish),
\* unless the database failed in the finally block as well.
C4_FailureRecorded ==
    (/\ last.op = "fetch_task_done"
     /\ last.started
     /\ ~last.finally_failed
     /\ last.fetch_status = "error"
     /\ Has(device_fetch_status, last.urn))
    => /\ StatusOf(device_fetch_status, last.urn) = "error"
       /\ RowOf(device_fetch_status, last.urn).error_message = last.error_message

\* C5: at any time at most one fetch task is in flight for a device.
C5_OneTaskPerDevice ==
    \A r1, r2 \in DOMAIN requests :
       (r1 # r2 /\ InFlight(r1) /\ InFlight(r2)) => requests[r1].urn # requests[r2].urn

(***************************************************************************)
(* SpecAlert: one device in service, its readings at, above or not         *)
(* comparable to the threshold; the operator sets the alert configuration  *)
(* at any time; the clock advances by half hours.                          *)
(***************************************************************************)
AlertCalls == 2

AlertTicks == 3

Threshold == 50

Cooldown == 60

HalfHour == 30

UpstreamAlert == {Reading(Recent, Threshold, <<>>), Reading(Recent, Threshold + 30, <<>>),
                  Reading(Recent, NaN, <<>>)}

InitAlert == InitTables(Others) /\ InitRest(AlertCalls)

NextAlert ==
    \/ \E r \in DOMAIN requests :
          \E fault \in FetchFaults(devices) :
             \E recovered \in BOOLEAN : FetchDeviceData(r, fault, recovered)
    \/ \E r \in DOMAIN requests : \E fail \in BOOLEAN : TaskStart(r, fail)
    \/ \E r \in DOMAIN requests : \E resp \in UpstreamAlert : TaskResponse(r, resp, 0)
    \/ \E r \in DOMAIN requests : \E fail, fails \in BOOLEAN : TaskFinish(r, fail, fails)
    \/ \E t \in BagToSet(alert_tasks) :
          \E fail \in BOOLEAN : CheckAndTriggerAlerts(t, fail)
    \/ \E t \in BagToSet(alert_tasks) : SendEmailAlert(t)
    \/ \E email, enabled \in BOOLEAN :
          SetAlertConfig(DEVICE_URNS[1], Threshold, email, enabled, Cooldown)
    \/ now < T0 + AlertTicks * HalfHour /\ Tick(HalfHour)

SpecAlert == InitAlert /\ [][NextAlert]_vars

\* C6: once an alert has been dispatched for a device, no further alert is
\* dispatched for it until alert_cooldown_minutes have elapsed since that
\* dispatch, whatever fetches, alert checks and set_alert_config calls occur
\* (stated for the checks of a numeric reading).
C6_CooldownRespected ==
    (/\ last.op = "send_email_alert"
     /\ last.cpm # NaN
     /\ last.previous # NULL)
    => last.at - last.previous >= last.config.alert_cooldown_minutes

\* C7: a notification is dispatched only if an alert_thresholds row exists,
\* alert_enabled is true and the CPM value is strictly greater than
\* threshold_cpm; a value equal to the threshold dispatches nothing and
\* leaves last_alert_sent unchanged.
C7_DispatchOnlyAboveThreshold ==
    /\ last.op = "check_and_trigger_alerts" =>
          /\ last.notified =>
                /\ last.found
                /\ last.config.alert_enabled
                /\ last.cpm # NaN
                /\ last.cpm > last.config.threshold_cpm
          /\ (last.found /\ last.cpm = last.config.threshold_cpm) =>
                /\ ~last.notified
                /\ RowOf(alert_thresholds, last.urn).last_alert_sent = last.config.last_alert_sent
    /\ last.op = "send_email_alert" =>
          /\ last.config.alert_enabled
          /\ last.cpm # NaN
          /\ last.cpm > last.config.threshold_cpm

(***************************************************************************)
(* SpecCleanup: the pipeline of SpecOne, the daily cleanup and the clock   *)
(* advancing by days.                                                      *)
(***************************************************************************)
CleanupDays == 2

NextCleanup ==
    \/ Next
    \/ CleanupOldData
    \/ now < T0 + CleanupDays * Day /\ Tick(Day)

SpecCleanup == InitOne /\ [][NextCleanup]_vars

\* C8: after cleanup_old_data no measurement captured more than MAX_DATA_DAYS
\* days before the current time remains, and every newer measurement is
\* unchanged.
C8_CleanupRemovesOld ==
    [][last'.op = "cleanup_old_data" =>
          /\ \A m \in BagToSet(measurements') : ~(m.when_captured < last'.cutoff)
          /\ \A m \in BagToSet(measurements) :
                m.when_captured >= last'.cutoff =>
                   CopiesIn(m, measurements') = CopiesIn(m, measurements)]_vars

(***************************************************************************)
(* SpecAdmin: the operator has removed all devices but the first; the      *)
(* admin endpoints are called for that device and for a URN that is not    *)
(* configured, the server restarts, and the fetch endpoint is called up to *)
(* AdminCalls times.  The database may fail in init_db, in the endpoint    *)
(* and in the fetch tasks; the upstream answers without current_values, so *)
(* that the tasks store no reading and create no alert check.              *)
(***************************************************************************)
AdminCalls == 1

AdminUrns == {DEVICE_URNS[1], OTHER_URN}

UpstreamAdmin == {NoCurrentValues}

InitAdmin == InitTables(Others) /\ InitRest(AdminCalls)

NextAdmin ==
    \/ \E u \in AdminUrns : AddDevice(u)
    \/ \E u \in AdminUrns : RemoveDevice(u)
    \/ \E u \in AdminUrns : RestoreDevice(u)
    \/ \E outcome \in InitDbOutcomes : InitDb(outcome)
    \/ \E r \in DOMAIN requests :
          \E fault \in FetchFaults(devices) :
             \E recovered \in BOOLEAN : FetchDeviceData(r, fault, recovered)
    \/ \E r \in DOMAIN requests : \E fail \in BOOLEAN : TaskStart(r, fail)
    \/ \E r \in DOMAIN requests : \E resp \in UpstreamAdmin : TaskResponse(r, resp, 0)
    \/ \E r \in DOMAIN requests : \E fail, fails \in BOOLEAN : TaskFinish(r, fail, fails)

SpecAdmin == InitAdmin /\ [][NextAdmin]_vars

\* C9: after a successful remove_device(urn), urn is in deleted_devices and
\* absent from devices and device_fetch_status; no run of init_db adds a URN
\* of deleted_devices to devices or device_fetch_status; and nothing but
\* add_device and restore_device brings a removed URN back into a table.
C9_RemovedStaysRemoved ==
    [][/\ (last'.op = "remove_device" /\ last'.code = 200 /\ Has(devices, last'.urn)) =>
             /\ last'.urn \in deleted_devices'
             /\ ~Has(devices', last'.urn)
             /\ ~Has(device_fetch_status', last'.urn)
       /\ last'.op = "init_db" =>
             \A u \in deleted_devices :
                /\ Has(devices', u) = Has(devices, u)
                /\ Has(device_fetch_status', u) = Has(device_fetch_status, u)
       /\ last'.op \notin {"add_device", "restore_device"} =>
             \A u \in deleted_devices :
                /\ ~Has(devices, u) => ~Has(devices', u) /\ u \in deleted_devices'
                /\ ~Has(device_fetch_status, u) => ~Has(device_fetch_status', u)]_vars

QueryDays == {7, MAX_DATA_DAYS}

NextRead ==
    \/ Next
    \/ \E u \in AdminUrns : \E days \in QueryDays : GetMeasurements(u, days)
    \/ \E u \in AdminUrns : GetAlertConfig(u)
    \/ \E u \in AdminUrns : SetAlertConfig(u, Threshold, TRUE, TRUE, Cooldown)
    \/ \E u \in AdminUrns : \E email \in BOOLEAN : TestAlert(u, email)
    \/ \E t \in BagToSet(alert_tasks) : SendEmailAlert(t)
    \/ \E u \in AdminUrns : RemoveDevice(u)

SpecRead == InitOne /\ [][NextRead]_vars

\* The measurements of u captured between t minus days and t, oldest first.
WindowExpected(meas, u, days, t) ==
    OrderAsc([m \in {x \in BagToSet(RowsOf(meas, u)) :
                       x.when_captured >= t - days * Day /\ x.when_captured <= t}
              |-> CopiesIn(m, meas)])

\* C11: for an existing device with a measurement captured within the last
\* `days` days, get_measurements returns exactly the device's measurements
\* of that window, by ascending when_captured, and none outside it.
C11_WindowReturned ==
    (/\ last.op = "get_measurements"
     /\ last.code = 200
     /\ WindowExpected(measurements, last.urn, last.days, last.at) # <<>>)
    => last.measurements = WindowExpected(measurements, last.urn, last.days, last.at)

LookupOps == {"get_measurements", "get_alert_config", "set_alert_config",
              "test_alert", "remove_device"}

\* C12: each endpoint that checks the device's existence answers a request
\* for a device_urn that is not in devices with 404 and "Device not found".
C12_NotFoundIs404 ==
    [][(last'.op \in LookupOps /\ ~Has(devices, last'.urn)) =>
          last'.code = 404 /\ last'.detail = "Device not found"]_vars

\* The URNs that are both configured and in the devices table.
Fetchable(devs) == Configured \cap {d.device_urn : d \in devs}

\* C13, as stated: every call of /api/fetch-device-data schedules a task for
\* exactly the URNs that are in DEVICE_URNS and in devices, each once, and
\* sets the status of each to 'fetching' with error_message NULL; with no
\* such URN it answers 'no_devices_to_fetch', schedules nothing and changes
\* no table.
C13_SchedulesExistingConfigured ==
    [][(last'.op = "fetch_device_data" /\ requests' # requests) =>
          /\ Range(last'.scheduled) = Fetchable(devices)
          /\ Len(last'.scheduled) = Cardinality(Fetchable(devices))
          /\ \E r \in DOMAIN requests :
                /\ requests[r].pc = "unused"
                /\ requests'[r].queue = last'.scheduled
                /\ \A q \in DOMAIN requests \ {r} : requests'[q] = requests[q]
          /\ \A u \in Fetchable(devices) :
                /\ StatusOf(device_fetch_status', u) = "fetching"
                /\ RowOf(device_fetch_status', u).error_message = NoText
          /\ IF Fetchable(devices) = {}
             THEN /\ last'.status = "no_devices_to_fetch"
                  /\ dbvars' = dbvars
             ELSE last'.status = "fetch_started"]_vars

\* C13, as amended: a call of /api/fetch-device-data that meets no database
\* error schedules a task for exactly the URNs that are in DEVICE_URNS and in
\* devices, each once, and sets the status of each to 'fetching' with
\* error_message NULL; with no such URN it answers 'no_devices_to_fetch',
\* schedules nothing and changes no table.  A call that meets a database
\* error answers 500, schedules nothing and changes no table, except that it
\* may leave the status of URNs that are in DEVICE_URNS and in devices at
\* 'error' with an error message.
C13_SchedulesUnlessDatabaseFails ==
    [][(last'.op = "fetch_device_data" /\ requests' # requests) =>
          IF last'.fault = 0
          THEN /\ last'.code = 200
               /\ Range(last'.scheduled) = Fetchable(devices)
               /\ Len(last'.scheduled) = Cardinality(Fetchable(devices))
               /\ \E r \in DOMAIN requests :
                     /\ requests[r].pc = "unused"
                     /\ requests'[r].queue = last'.scheduled
                     /\ \A q \in DOMAIN requests \ {r} : requests'[q] = requests[q]
               /\ \A u \in Fetchable(devices) :
                     /\ StatusOf(device_fetch_status', u) = "fetching"
                     /\ RowOf(device_fetch_status', u).error_message = NoText
               /\ IF Fetchable(devices) = {}
                  THEN /\ last'.status = "no_devices_to_fetch"
                       /\ dbvars' = dbvars
                  ELSE last'.status = "fetch_started"
          ELSE /\ last'.code = 500
               /\ last'.scheduled = <<>>
               /\ \E r \in DOMAIN requests :
                     /\ requests[r].pc = "unused"
                     /\ requests'[r].pc = "failed"
                     /\ requests'[r].queue = <<>>
                     /\ \A q \in DOMAIN requests \ {r} : requests'[q] = requests[q]
               /\ <<devices, measurements, deleted_devices, alert_thresholds>>' =
                     <<devices, measurements, deleted_devices, alert_thresholds>>
               /\ \A u \in Urns :
                     \/ {row \in device_fetch_status' : row.device_urn = u} =
                           {row \in device_fetch_status : row.device_urn = u}
                     \/ /\ u \in Fetchable(devices)
                        /\ StatusOf(device_fetch_status', u) = "error"
                        /\ RowOf(device_fetch_status', u).error_message # NoText]_vars

\* C13 witness: a call that met no database error has scheduled the one
\* configured device of the table and not the unconfigured URN that is in
\* the table too.
C13_Witness ==
    /\ last.op = "fetch_device_data"
    /\ last.fault = 0
    /\ last.scheduled = <<DEVICE_URNS[1]>>
    /\ Has(devices, OTHER_URN)
    /\ StatusOf(device_fetch_status, DEVICE_URNS[1]) = "fetching"

(***************************************************************************)
(* SpecBoot: init_db on a database left by earlier runs, possibly under    *)
(* another DEVICE_URNS list: any set of configured devices is in the       *)
(* tables, each with a stored reading, a 'completed' status and an alert   *)
(* row, and any set of them is in deleted_devices.  The server restarts    *)
(* and the operator adds, removes and restores devices.                    *)
(***************************************************************************)
StoredDevice(u) == [device_urn |-> u, last_seen |-> Recent, last_reading |-> 30]

StoredStatus(u) ==
    [device_urn |-> u, fetch_status |-> "completed", error_message |-> NoText,
     last_measurement_time |-> Recent]

StoredMeasurement(u) == [device_urn |-> u, when_captured |-> Recent, lnd_7318u |-> 30]

StoredAlert(u) ==
    [device_urn |-> u, threshold_cpm |-> Threshold, alert_email |-> TRUE,
     alert_enabled |-> TRUE, last_alert_sent |-> NULL, alert_cooldown_minutes |-> Cooldown]

InitBoot ==
    \E present, deleted \in SUBSET Configured :
       /\ devices = {StoredDevice(u) : u \in present}
       /\ device_fetch_status = {StoredStatus(u) : u \in present}
       /\ measurements = SetToBag({StoredMeasurement(u) : u \in present})
       /\ deleted_devices = deleted
       /\ alert_thresholds = {StoredAlert(u) : u \in present}
       /\ InitRest(0)

NextBoot ==
    \/ \E outcome \in InitDbOutcomes : InitDb(outcome)
    \/ \E u \in Urns : AddDevice(u)
    \/ \E u \in Urns : RemoveDevice(u)
    \/ \E u \in Urns : RestoreDevice(u)

SpecBoot == InitBoot /\ [][NextBoot]_vars

(***************************************************************************)
(* SpecSample: a maintenance script that calls add_sample_data on a        *)
(* database left by earlier runs, committing or not, between restarts of   *)
(* the server.  No path of the server itself reaches add_sample_data, so   *)
(* the other specifications, which are the server, have no such step.      *)
(***************************************************************************)
NextSample ==
    \/ \E outcome \in InitDbOutcomes : InitDb(outcome)
    \/ \E outcome \in InitDbOutcomes : \E commits \in BOOLEAN : AddSampleData(outcome, commits)
    \/ \E u \in Urns : RemoveDevice(u)

SpecSample == InitBoot /\ [][NextSample]_vars

\* C14: init_db changes no existing row of devices, device_fetch_status,
\* measurements, alert_thresholds or deleted_devices and adds rows only for
\* configured URNs that are not deleted; a run that does not raise adds the
\* missing ones, and a second run on its result changes nothing.
C14_InitDbNonDestructive ==
    [][last'.op = "init_db" =>
          /\ devices \subseteq devices'
          /\ device_fetch_status \subseteq device_fetch_status'
          /\ measurements' = measurements
          /\ alert_thresholds' = alert_thresholds
          /\ deleted_devices' = deleted_devices
          /\ \A d \in devices' \ devices : d.device_urn \in Configured \ deleted_devices
          /\ \A d \in device_fetch_status' \ device_fetch_status :
                d.device_urn \in Configured \ deleted_devices
          /\ last'.outcome # "raises" =>
                /\ \A u \in Configured \ deleted_devices :
                      Has(devices', u) /\ Has(device_fetch_status', u)
                /\ InitDbResult(devices', device_fetch_status', deleted_devices') =
                      [devices |-> devices', device_fetch_status |-> device_fetch_status']]_vars

(***************************************************************************)
(* Status recorded by a fetch                                              *)
(***************************************************************************)
\* current_values carried latitude, longitude, reading and timestamp.
Carried(resp) ==
    /\ resp.http = "ok" /\ resp.body = "object" /\ resp.cv = "dict"
    /\ resp.loc_lat # NULL /\ resp.loc_lon # NULL
    /\ resp.lnd_7318u # NULL /\ resp.when_captured # NULL

\* The four values all parsed.
AllParsed(resp) ==
    /\ ParseFloat(resp.loc_lat).exc = "none"
    /\ ParseFloat(resp.loc_lon).exc = "none"
    /\ ParseFloat(resp.lnd_7318u).exc = "none"
    /\ ParseTime(resp.when_captured).exc = "none"

\* The status the outcome of a fetch calls for.
ExpectedStatus(resp, fail) ==
    IF resp.http = "ok" /\ resp.body = "object" /\ resp.cv = "absent" THEN "no_data"
    ELSE IF Carried(resp) /\ AllParsed(resp)
            /\ fail \notin {1, 2, CommitStmt(resp.geiger_history)} THEN "completed"
    ELSE "error"

\* C15: the status a fetch records reflects its outcome: the task ends with
\* 'completed' exactly when current_values carried the four values, they
\* parsed and the store committed, with 'no_data' exactly when the answer is
\* an object without current_values, with 'error' otherwise; and the status
\* the task ends with (error, when its status update fails) is the one in
\* the device's row when the task is over.
C15_StatusReflectsOutcome ==
    [][/\ last'.op = "fetch_task_response" =>
             last'.fetch_status = ExpectedStatus(last'.resp, last'.fail)
       /\ (last'.op = "fetch_task_done" /\ last'.started
              /\ Has(device_fetch_status', last'.urn)) =>
             StatusOf(device_fetch_status', last'.urn) = last'.fetch_status]_vars

\* The measurement rows a response carries for u: its current reading and
\* every geiger_history entry that reaches its INSERT.
ResponseRows(u, resp) ==
    {[device_urn |-> u, when_captured |-> resp.when_captured,
      lnd_7318u |-> BindReal(resp.lnd_7318u)]}
    \cup {[device_urn |-> u, when_captured |-> resp.geiger_history[i].when_captured,
           lnd_7318u |-> BindReal(resp.geiger_history[i].lnd_7318u)] :
          i \in {j \in DOMAIN resp.geiger_history : EntryValid(resp.geiger_history[j])}}

\* C16: storing is idempotent: a fetch that stores a response whose rows an
\* earlier fetch has already stored leaves measurements exactly as it was.
C16_StoreIdempotent ==
    [][(/\ last'.op = "fetch_task_response"
        /\ last'.fetch_status = "completed"
        /\ \A m \in ResponseRows(last'.urn, last'.resp) : BagIn(m, measurements))
       => measurements' = measurements]_vars

\* C17: a fetch creates an alert check for the current reading only if that
\* reading is new: when the row of the current reading is already in
\* measurements, the fetch creates no alert check.
C17_AlertOnlyForNewReading ==
    [][(/\ last'.op = "fetch_task_response"
        /\ last'.resp.lnd_7318u # NaN
        /\ alert_tasks' # alert_tasks)
       => ~BagIn([device_urn |-> last'.urn, when_captured |-> last'.resp.when_captured,
                  lnd_7318u |-> BindReal(last'.resp.lnd_7318u)], measurements)]_vars

(***************************************************************************)
(* SpecHistory: one device in service, whose upstream answers carry a      *)
(* current reading and up to MaxHist geiger_history entries, valid or not; *)
(* any statement of the store can fail.                                    *)
(***************************************************************************)
HistCalls == 1

MaxHist == 2

\* The valid entry at position i of a history: each has its own capture time.
ValidEntry(i) == EntryAt(Old - i, 20 + i, 1, 2)

InvalidEntries ==
    {NotADict, Entry(NULL, 25), Entry(Old, NULL), Entry(Old, BadStr), Entry(BadStr, 25),
     EntryAt(Old, 25, BadStr, 2), EntryAt(Old, 25, 1, BadType)}

\* Histories of n entries: all valid, or with one entry or every entry
\* replaced by one kind of invalid entry.
Histories(n) ==
    {[i \in 1 .. n |-> IF i \in bad THEN e ELSE ValidEntry(i)] :
        bad \in {{}, 1 .. n} \cup {{i} : i \in 1 .. n}, e \in InvalidEntries}

UpstreamHistory ==
    {Reading(Recent, 30, h) : h \in UNION {Histories(n) : n \in 0 .. MaxHist}}

InitHistory == InitTables(Others) /\ InitRest(HistCalls)

NextHistory ==
    \/ \E r \in DOMAIN requests : FetchDeviceData(r, 0, TRUE)
    \/ \E r \in DOMAIN requests : TaskStart(r, FALSE)
    \/ \E r \in DOMAIN requests :
          \E resp \in UpstreamHistory :
             \E fail \in FailPoints(resp) : TaskResponse(r, resp, fail)
    \/ \E r \in DOMAIN requests : TaskFinish(r, FALSE, FALSE)
    \/ \E t \in BagToSet(alert_tasks) : CheckAndTriggerAlerts(t, FALSE)

SpecHistory == InitHistory /\ [][NextHistory]_vars

\* An entry the store has to skip: not an object, when_captured or lnd_7318u
\* missing, a number or timestamp that does not parse, or an INSERT that
\* fails (statement 2 + i of the transaction).
InvalidEntry(hist, i, fail) ==
    \/ ~hist[i].is_dict
    \/ hist[i].when_captured = NULL
    \/ hist[i].lnd_7318u = NULL
    \/ ParseFloat(hist[i].lnd_7318u).exc # "none"
    \/ ParseTime(hist[i].when_captured).exc # "none"
    \/ ParseFloat(hist[i].loc_lat).exc # "none"
    \/ ParseFloat(hist[i].loc_lon).exc # "none"
    \/ fail = 2 + i

RECURSIVE ValidOnly(_, _, _)
\* The history without its invalid entries, from entry i on.
ValidOnly(hist, i, fail) ==
    IF i > Len(hist) THEN <<>>
    ELSE IF InvalidEntry(hist, i, fail) THEN ValidOnly(hist, i + 1, fail)
    ELSE <<hist[i]>> \o ValidOnly(hist, i + 1, fail)

\* C18: an invalid geiger_history entry is skipped and prevents neither the
\* other entries nor the current reading from being stored and committed:
\* the store commits unless its UPDATE, the INSERT of the current reading or
\* the COMMIT fails, it leaves the tables as the same answer without its
\* invalid entries would, and no invalid entry has added a row.
C18_InvalidEntrySkipped ==
    [][last'.op = "fetch_task_response" =>
          LET u == last'.urn
              resp == last'.resp
              hist == resp.geiger_history
              fail == last'.fail
              clean == StoreBlock(devices, measurements, u, resp.when_captured,
                                  resp.lnd_7318u, ValidOnly(hist, 1, fail), 0)
          IN /\ last'.fetch_status = "completed" <=> fail \notin {1, 2, CommitStmt(hist)}
             /\ last'.fetch_status = "completed" =>
                   /\ measurements' = clean.measurements
                   /\ devices' = clean.devices
                   /\ BagIn([device_urn |-> u, when_captured |-> resp.when_captured,
                             lnd_7318u |-> resp.lnd_7318u], measurements')
                   /\ \A i \in DOMAIN hist :
                         IF InvalidEntry(hist, i, fail)
                         THEN \A m \in BagToSet(measurements') :
                                 (m.when_captured = hist[i].when_captured
                                    /\ m.lnd_7318u = hist[i].lnd_7318u)
                                  => \/ BagIn(m, measurements)
                                     \/ \E j \in DOMAIN hist :
                                           /\ ~InvalidEntry(hist, j, fail)
                                           /\ hist[j] = hist[i]
                         ELSE BagIn([device_urn |-> u,
                                     when_captured |-> hist[i].when_captured,
                                     lnd_7318u |-> hist[i].lnd_7318u], measurements')]_vars

\* C18 witness: a committed store whose history has an invalid entry before
\* a valid one: the valid entry and the current reading are in measurements.
C18_Witness ==
    /\ last.op = "fetch_task_response"
    /\ last.fetch_status = "completed"
    /\ Len(last.resp.geiger_history) = 2
    /\ InvalidEntry(last.resp.geiger_history, 1, last.fail)
    /\ last.resp.geiger_history[2] = ValidEntry(2)
    /\ BagIn([device_urn |-> last.urn, when_captured |-> ValidEntry(2).when_captured,
              lnd_7318u |-> ValidEntry(2).lnd_7318u], measurements)
    /\ BagIn([device_urn |-> last.urn, when_captured |-> Recent, lnd_7318u |-> 30], measurements)

(***************************************************************************)
(* SpecPeriodic: the periodic task over more than a day, with the calls of *)
(* the endpoint it triggers and the fetch and alert tasks they start.  The *)
(* clock advances while the task sleeps and, by RequestTicks minutes in    *)
(* all, while its request is in flight or its client closes.  The request  *)
(* raises in the first PeriodicRaises cycles only (the server is not       *)
(* accepting connections yet).  SpecPeriodicLive is the same task over a   *)
(* few cycles, where any request may raise, with the scheduling of the     *)
(* event loop: the request ends (httpx's default timeout), the close ends, *)
(* the sleep ends, a runnable task runs.                                   *)
(***************************************************************************)
PeriodicCycles == 290

PeriodicRaises == 2

PeriodicCalls == 1

LiveCycles == 3

LiveCalls == 1

RequestTicks == 1

\* What the device in service answers to the fetch tasks.
UpstreamPeriodic == {Reading(Old, 30, <<>>)}

PeriodicStep(cycles, raises) ==
    \/ periodic.cycles < cycles /\ PeriodicRequest
    \/ \E outcome \in TriggerOutcomes :
          /\ outcome = "raises" => periodic.cycles <= raises
          /\ PeriodicAnswer(outcome)
    \/ \E cleanup_fails \in BOOLEAN : PeriodicCleanup(cleanup_fails)
    \/ periodic.pc = "sleeping" /\ now < periodic.wake_at /\ Tick(periodic.wake_at - now)
    \/ /\ periodic.pc \in {"awaiting", "closing"}
       /\ (now - T0) % SleepTime < RequestTicks
       /\ Tick(1)

\* The steps of the fetch tasks the endpoint has queued and of the alert
\* checks they create.
PeriodicTasks ==
    \/ \E r \in DOMAIN requests : TaskStart(r, FALSE)
    \/ \E r \in DOMAIN requests : \E resp \in UpstreamPeriodic : TaskResponse(r, resp, 0)
    \/ \E r \in DOMAIN requests : TaskFinish(r, FALSE, FALSE)
    \/ \E t \in BagToSet(alert_tasks) : CheckAndTriggerAlerts(t, FALSE)

InitPeriodic == InitTables(Others) /\ InitRest(PeriodicCalls)

NextPeriodic ==
    \/ PeriodicStep(PeriodicCycles, PeriodicRaises)
    \/ \E r \in DOMAIN requests : FetchDeviceData(r, 0, TRUE)
    \/ PeriodicTasks
    \/ Shutdown

SpecPeriodic == InitPeriodic /\ [][NextPeriodic]_vars

InitLive == InitTables(Others) /\ InitRest(LiveCalls)

NextLive ==
    \/ PeriodicStep(LiveCycles, LiveCycles)
    \/ \E r \in DOMAIN requests : FetchDeviceData(r, 0, TRUE)
    \/ PeriodicTasks
    \/ Shutdown

SpecPeriodicLive ==
    InitLive /\ [][NextLive]_vars /\ WF_vars(PeriodicStep(LiveCycles, LiveCycles))

\* The step is the end of a cycle of the periodic task.
CycleEnds == periodic.pc = "closing" /\ last'.op = "periodic_cycle"

\* C19: cleanup_old_data runs during the first cycle after startup; it runs
\* in a cycle only if at least one full day has passed since last_cleanup;
\* and last_cleanup changes only in a cycle where cleanup ran.
C19_CleanupFirstThenDaily ==
    [][/\ (CycleEnds /\ last'.cycle = 1) => last'.cleanup
       /\ (CycleEnds /\ last'.cleanup) => now - periodic.last_cleanup >= Day
       /\ periodic'.last_cleanup # periodic.last_cleanup =>
             (CycleEnds /\ last'.cleanup /\ periodic'.last_cleanup = now)]_vars

\* The cycle that has just ended failed: its request raised or was answered
\* with another status than 200, or its cleanup failed.
CycleFailed ==
    /\ last.op = "periodic_cycle"
    /\ last.outcome # "ok" \/ last.cleanup_failed

\* C20: a failure inside a cycle never ends the periodic task: every cycle,
\* failed or not, ends in the sleep of AUTO_REFRESH_INTERVAL_SECONDS, the
\* next cycle starts no earlier than that and does start unless the task is
\* cancelled, and the task leaves its loop only by the cancel of shutdown.
C20_FailureKeepsTaskRunning ==
    /\ [][/\ CycleEnds =>
                /\ periodic'.pc = "sleeping"
                /\ periodic'.wake_at * 60 = now * 60 + AUTO_REFRESH_INTERVAL_SECONDS
          /\ (periodic.pc = "sleeping" /\ periodic'.cycles # periodic.cycles) =>
                /\ now >= periodic.wake_at
                /\ periodic'.pc = "awaiting"
                /\ periodic'.cycles = periodic.cycles + 1
          /\ (periodic.pc \in {"top", "awaiting", "closing", "sleeping"}
                 /\ periodic'.pc \notin {"top", "awaiting", "closing", "sleeping"}) =>
                (last'.op = "shutdown" /\ periodic'.pc = "cancelled")]_vars
    /\ (CycleFailed /\ periodic.pc = "sleeping" /\ periodic.cycles < LiveCycles)
          ~> (periodic.pc \in {"awaiting", "cancelled"})

\* C20 witness: the second cycle has started, one sleep after a first cycle
\* whose request raised.
C20_Witness ==
    /\ last.op = "periodic_request"
    /\ periodic.pc = "awaiting"
    /\ periodic.cycles = 2
    /\ periodic.outcome = "raises"
    /\ now * 60 = T0 * 60 + AUTO_REFRESH_INTERVAL_SECONDS

(***************************************************************************)
(* SpecPair: two devices in service and up to PairCalls overlapping calls  *)
(* of the endpoint, so that the task of one device runs while the task of  *)
(* the other is at its await.  Both devices report the same reading at the *)
(* same time; the database may fail at the start of a task (and then in    *)
(* its finally block too) and at the COMMIT of its store.                  *)
(***************************************************************************)
PairCalls == 2

DeviceA == DEVICE_URNS[1]

DeviceB == DEVICE_URNS[2]

UpstreamPair == {Reading(Recent, 30, <<>>)}

InitPair == InitTables(Configured \ {DeviceA, DeviceB}) /\ InitRest(PairCalls)

NextPair ==
    \/ \E r \in DOMAIN requests : FetchDeviceData(r, 0, TRUE)
    \/ \E r \in DOMAIN requests : \E fail \in BOOLEAN : TaskStart(r, fail)
    \/ \E r \in DOMAIN requests :
          \E resp \in UpstreamPair :
             \E fail \in {0, CommitStmt(resp.geiger_history)} : TaskResponse(r, resp, fail)
    \/ \E r \in DOMAIN requests : TaskFinish(r, FALSE, FALSE)
    \/ \E t \in BagToSet(alert_tasks) : CheckAndTriggerAlerts(t, FALSE)

SpecPair == InitPair /\ [][NextPair]_vars

\* The rows of device u in a table.
Only(tbl, u) == {r \in tbl : r.device_urn = u}

\* The step is a step of a fetch task (of device last'.urn).
FetchTaskSteps ==
    /\ requests' # requests
    /\ last'.op \in {"fetch_task_start", "fetch_task_response", "fetch_task_done"}

\* What the step of the task of device u, run on a database that holds the
\* rows of u only, leaves in the three tables.
AloneResult(u) ==
    LET devs == Only(devices, u)
        stat == Only(device_fetch_status, u)
        meas == RowsOf(measurements, u)
    IN IF last'.op = "fetch_task_response"
       THEN LET o == ProcessResponse(devs, meas, u, last'.resp, last'.fail)
            IN {[devices |-> o.devices, device_fetch_status |-> stat,
                 measurements |-> o.measurements]}
       ELSE IF last'.op = "fetch_task_start"
       THEN {[devices |-> devs, measurements |-> meas,
              device_fetch_status |-> SetFetching(stat, u)]}
       ELSE IF ~last'.started
       THEN {[devices |-> devs, measurements |-> meas,
              device_fetch_status |->
                 FinallyBlock(stat, u, "error", last'.error_message,
                              last'.finally_failed)]}
       ELSE {[devices |-> devs, measurements |-> meas,
              device_fetch_status |->
                 FinallyBlock(IF last'.exc = "none"
                              THEN FinalStatusUpdate(stat, u, requests[r].fetch_status,
                                                     requests[r].error_message,
                                                     requests[r].last_measurement_time)
                              ELSE stat,
                              u, last'.fetch_status, last'.error_message,
                              last'.finally_failed)] :
             r \in {q \in DOMAIN requests : requests'[q] # requests[q]}}

\* C21: fetch tasks of different devices do not interfere: every step of a
\* task of device A leaves the devices, measurements and device_fetch_status
\* rows of every other device as they are, and leaves the rows of A as the
\* same step would on a database holding the rows of A only, whatever the
\* tasks of other devices have done or are doing.
C21_TasksDoNotInterfere ==
    [][FetchTaskSteps =>
          LET a == last'.urn
          IN /\ \A b \in Urns \ {a} :
                   /\ Only(devices', b) = Only(devices, b)
                   /\ Only(device_fetch_status', b) = Only(device_fetch_status, b)
                   /\ RowsOf(measurements', b) = RowsOf(measurements, b)
             /\ [devices |-> Only(devices', a),
                 device_fetch_status |-> Only(device_fetch_status', a),
                 measurements |-> RowsOf(measurements', a)] \in AloneResult(a)]_vars

\* C21 witness: the task of A has stored its reading and ended while a task
\* of B, which has stored the same reading, is still at its await; A's rows
\* are those of a fetch of A alone.
C21_Witness ==
    /\ last.op = "fetch_task_done"
    /\ last.urn = DeviceA
    /\ last.fetch_status = "completed"
    /\ \E r \in DOMAIN requests :
          /\ requests[r].pc = "closing"
          /\ requests[r].urn = DeviceB
          /\ requests[r].fetch_status = "completed"
    /\ StatusOf(device_fetch_status, DeviceA) = "completed"
    /\ RowOf(devices, DeviceA).last_seen = Recent
    /\ RowsOf(measurements, DeviceA)
          = SetToBag({[device_urn |-> DeviceA, when_captured |-> Recent, lnd_7318u |-> 30]})
    /\ BagIn([device_urn |-> DeviceB, when_captured |-> Recent, lnd_7318u |-> 30],
             measurements)
====
